---------------------------- MODULE Spec2Model ----------------------------
(***************************************************************************)
(* FalkorDBTools (libs/agno/agno/tools/falkordb.py): a toolkit that opens  *)
(* one FalkorDB connection at construction and exposes four operations,    *)
(* list_labels, list_relationship_types, get_schema and run_cypher_query.  *)
(*                                                                         *)
(* Python values are represented as follows.                               *)
(*   Optional[T]      None is <<>>, a value v is <<v>>                      *)
(*   str              a TLA+ string; the text of FALKORDB_PORT, which the  *)
(*                    code parses with int(), is a sequence of characters  *)
(*   list             a sequence                                           *)
(*   dict             a function from its keys to its values               *)
(*   a computation    [err |-> BOOLEAN, val |-> ...]: err is TRUE when it  *)
(*                    raised an Exception                                  *)
(***************************************************************************)
EXTENDS Integers, Sequences, FiniteSets, TLC

VARIABLES
    args,       \* the arguments the constructor is called with
    env,        \* os.environ: variable name -> Optional[str]
    state,      \* "Constructing", "Ready" or "Failed"
    raised,     \* the exception __init__ propagated: "none" or its type
    connected,  \* how the FalkorDB(...) call ended: "none", "ok", "refused"
    connects,   \* number of FalkorDB(...) calls made so far
    db,         \* self.db: Optional[the connection, named by its arguments]
    graph_name, \* self.graph_name: Optional[str]
    tools,      \* the list handed to Toolkit.__init__
    registered, \* whether Toolkit.__init__ was called
    envRead,    \* the environment variables consulted so far
    last        \* the last call of an operation: its inputs and its outcome

vars == <<args, env, state, raised, connected, connects, db, graph_name,
          tools, registered, envRead, last>>

----------------------------------------------------------------------------
(* Python helpers *)

None == <<>>

Some(v) == <<v>>

Range(s) == {s[i] : i \in DOMAIN s}

\* bool(x) of an Optional[str]
TruthyStr(o) == o # None /\ o[1] # ""

\* bool(x) of an Optional[int]
TruthyInt(o) == o # None /\ o[1] # 0

DigitValue ==
    [c \in {"0", "1", "2", "3", "4", "5", "6", "7", "8", "9"} |->
        CASE c = "0" -> 0 [] c = "1" -> 1 [] c = "2" -> 2 [] c = "3" -> 3
          [] c = "4" -> 4 [] c = "5" -> 5 [] c = "6" -> 6 [] c = "7" -> 7
          [] c = "8" -> 8 [] c = "9" -> 9]

RECURSIVE LStrip(_)
LStrip(s) == IF s # <<>> /\ Head(s) = " " THEN LStrip(Tail(s)) ELSE s

RECURSIVE RStrip(_)
RStrip(s) ==
    IF s # <<>> /\ s[Len(s)] = " " THEN RStrip(SubSeq(s, 1, Len(s) - 1)) ELSE s

RECURSIVE DigitsValue(_, _)
DigitsValue(s, acc) ==
    IF s = <<>> THEN acc
    ELSE DigitsValue(Tail(s), 10 * acc + DigitValue[Head(s)])

\* int(s) of a str: surrounding blanks are stripped, one sign is accepted,
\* and what remains must be one or more decimal digits; anything else raises
\* ValueError.  (Underscores between digits are not modelled.)
int(s) ==
    LET t == RStrip(LStrip(s))
        signed == t # <<>> /\ Head(t) \in {"+", "-"}
        d == IF signed THEN Tail(t) ELSE t
    IN  IF d = <<>> \/ \E i \in DOMAIN d : d[i] \notin DOMAIN DigitValue
        THEN [err |-> TRUE, val |-> 0]
        ELSE [err |-> FALSE,
              val |-> IF signed /\ Head(t) = "-"
                      THEN 0 - DigitsValue(d, 0) ELSE DigitsValue(d, 0)]

\* os.getenv(name, default)
getenv(e, name, default) == IF e[name] # None THEN e[name][1] ELSE default

----------------------------------------------------------------------------
(* __init__ : resolution of the connection parameters, lines 46-60 *)

DefaultHost == "localhost"

DefaultPortText == <<"6", "3", "7", "9">>

DefaultGraph == "agno"

\* host = host or os.getenv("FALKORDB_HOST", "localhost")
resolve_host(a, e) ==
    IF TruthyStr(a.host) THEN a.host[1]
    ELSE getenv(e, "FALKORDB_HOST", DefaultHost)

\* port = port or int(os.getenv("FALKORDB_PORT", "6379"))
resolve_port(a, e) ==
    IF TruthyInt(a.port) THEN [err |-> FALSE, val |-> a.port[1]]
    ELSE int(getenv(e, "FALKORDB_PORT", DefaultPortText))

\* username = username or os.getenv("FALKORDB_USERNAME")
resolve_username(a, e) ==
    IF TruthyStr(a.username) THEN a.username ELSE e["FALKORDB_USERNAME"]

\* password = password or os.getenv("FALKORDB_PASSWORD")
resolve_password(a, e) ==
    IF TruthyStr(a.password) THEN a.password ELSE e["FALKORDB_PASSWORD"]

\* self.graph_name = graph_name or os.getenv("FALKORDB_GRAPH", "agno")
resolve_graph_name(a, e) ==
    IF TruthyStr(a.graph_name) THEN a.graph_name[1]
    ELSE getenv(e, "FALKORDB_GRAPH", DefaultGraph)

\* the environment variables lines 47-48 consult
env_read_endpoint(a) ==
    (IF TruthyStr(a.host) THEN {} ELSE {"FALKORDB_HOST"})
    \cup (IF TruthyInt(a.port) THEN {} ELSE {"FALKORDB_PORT"})

\* the environment variables lines 47-50 consult
env_read_connection(a) ==
    env_read_endpoint(a)
    \cup (IF TruthyStr(a.username) THEN {} ELSE {"FALKORDB_USERNAME"})
    \cup (IF TruthyStr(a.password) THEN {} ELSE {"FALKORDB_PASSWORD"})

\* the environment variable line 60 consults
env_read_graph(a) ==
    IF TruthyStr(a.graph_name) THEN {} ELSE {"FALKORDB_GRAPH"}

\* a tools list in which `all` no longer overrides the flag of get_schema
build_tools_all_skips_one(a) ==
    (IF a.all \/ a.enable_list_labels THEN <<"list_labels">> ELSE <<>>)
    \o (IF a.all \/ a.enable_list_relationships
        THEN <<"list_relationship_types">> ELSE <<>>)
    \o (IF a.enable_get_schema THEN <<"get_schema">> ELSE <<>>)
    \o (IF a.all \/ a.enable_run_cypher THEN <<"run_cypher_query">> ELSE <<>>)

\* the tools list of lines 63-71
build_tools(a) ==
    (IF a.all \/ a.enable_list_labels THEN <<"list_labels">> ELSE <<>>)
    \o (IF a.all \/ a.enable_list_relationships
        THEN <<"list_relationship_types">> ELSE <<>>)
    \o (IF a.all \/ a.enable_get_schema THEN <<"get_schema">> ELSE <<>>)
    \o (IF a.all \/ a.enable_run_cypher THEN <<"run_cypher_query">> ELSE <<>>)

\* the object as it is when __init__ raises before self.db is assigned
Unconstructed(exc, nconnects, conn, read) ==
    [state |-> "Failed", raised |-> exc, connected |-> conn,
     connects |-> nconnects, db |-> None, graph_name |-> None,
     tools |-> <<>>, registered |-> FALSE, envRead |-> read]

\* a constructor that logs the connection error and carries on
on_connect_error_swallowed(a, e) ==
    [state |-> "Ready", raised |-> "none", connected |-> "refused",
     connects |-> 1, db |-> None,
     graph_name |-> Some(resolve_graph_name(a, e)),
     tools |-> build_tools(a), registered |-> TRUE,
     envRead |-> env_read_connection(a) \cup env_read_graph(a)]

\* except Exception as e: logger.error(...); raise    (lines 56-58)
on_connect_error(a, e) ==
    Unconstructed("Exception", 1, "refused", env_read_connection(a))

\* lines 54-55 succeeded: lines 60-72
on_connected(a, e) ==
    [state |-> "Ready", raised |-> "none", connected |-> "ok", connects |-> 1,
     db |-> Some([host |-> resolve_host(a, e),
                  port |-> resolve_port(a, e).val,
                  username |-> resolve_username(a, e),
                  password |-> resolve_password(a, e)]),
     graph_name |-> Some(resolve_graph_name(a, e)),
     tools |-> build_tools(a), registered |-> TRUE,
     envRead |-> env_read_connection(a) \cup env_read_graph(a)]

\* FalkorDBTools.__init__; accepts says whether the server takes the
\* connection
init(a, e, accepts) ==
    IF resolve_port(a, e).err
    THEN Unconstructed("ValueError", 0, "none", env_read_endpoint(a))
    ELSE IF accepts THEN on_connected(a, e) ELSE on_connect_error(a, e)

----------------------------------------------------------------------------
(* The database, as the toolkit sees it through the falkordb client.       *)
(* A database state says whether select_graph succeeds and, for each query *)
(* text, what graph.query answers: [ok, header, result_set], where ok is   *)
(* FALSE when graph.query raises, header is Optional[list of column names] *)
(* and result_set is a list of rows, each row a list of values.            *)

MaxRows == 2

MaxCols == 2

\* get_schema reads two answers at once: theirs are bounded separately
MaxSchemaRows == 2

MaxSchemaCols == 1

Vals == {"A", "B"}

Names == {"a", "b"}

LabelsQuery == "CALL db.labels()"

RelTypesQuery == "CALL db.relationshipTypes()"

\* the query texts callers pass to run_cypher_query
Queries == {"MATCH (n) RETURN n", LabelsQuery}

AllQueries == {LabelsQuery, RelTypesQuery} \cup Queries

SeqsUpTo(S, n) == UNION {[1..k -> S] : k \in 0..n}

RowSet == SeqsUpTo(Vals, MaxCols)

ResultSets == SeqsUpTo(RowSet, MaxRows)

HeaderSet == {None} \cup {Some(h) : h \in SeqsUpTo(Names, MaxCols)}

QueryFails == [ok |-> FALSE, header |-> None, result_set |-> <<>>]

\* what an introspection query can answer (its header is never read)
ColumnAnswers ==
    {QueryFails}
    \cup {[ok |-> TRUE, header |-> None, result_set |-> rs] : rs \in ResultSets}

\* the introspection answers get_schema is run on
SchemaAnswers ==
    {QueryFails}
    \cup {[ok |-> TRUE, header |-> None, result_set |-> rs] :
            rs \in SeqsUpTo(SeqsUpTo(Vals, MaxSchemaCols), MaxSchemaRows)}

\* what an arbitrary query can answer
QueryAnswers ==
    {QueryFails}
    \cup {[ok |-> TRUE, header |-> h, result_set |-> rs] :
            h \in HeaderSet, rs \in ResultSets}

\* select_graph raises: there is no graph to answer anything
SelectFails ==
    [select_ok |-> FALSE, answers |-> [q \in AllQueries |-> QueryFails]]

\* a database that answers r to query q (the answers to the queries a call
\* does not issue are left at QueryFails)
Answering(q, r) ==
    [select_ok |-> TRUE,
     answers |-> [x \in AllQueries |-> IF x = q THEN r ELSE QueryFails]]

\* a database that answers l to the label query and r to the type query
AnsweringBoth(l, r) ==
    [select_ok |-> TRUE,
     answers |-> [x \in AllQueries |->
                    IF x = LabelsQuery THEN l
                    ELSE IF x = RelTypesQuery THEN r ELSE QueryFails]]

----------------------------------------------------------------------------
(* The four operations.  The body of each try block is an operator ending  *)
(* in [err, val, issued]: whether it raised, the value it returned, and    *)
(* the queries it handed to graph.query, in order.                         *)

Raise(issued) == [err |-> TRUE, val |-> <<>>, issued |-> issued]

Return(v, issued) == [err |-> FALSE, val |-> v, issued |-> issued]

\* [record[0] for record in result_set]: IndexError at the first row that
\* has no columns
RECURSIVE column0(_, _)
column0(result_set, acc) ==
    IF result_set = <<>> THEN [err |-> FALSE, val |-> acc]
    ELSE IF Len(Head(result_set)) = 0 THEN [err |-> TRUE, val |-> <<>>]
    ELSE column0(Tail(result_set), Append(acc, Head(result_set)[1]))

\* row_dict[column_name] = value
dict_set(dct, k, v) ==
    [x \in (DOMAIN dct) \cup {k} |-> IF x = k THEN v ELSE dct[x]]

\* a projection that stops at the end of a short row instead of raising
RECURSIVE row_to_dict_truncating(_, _, _, _)
row_to_dict_truncating(header, record, i, row_dict) ==
    IF i > Len(header) \/ i > Len(record)
    THEN [err |-> FALSE, val |-> row_dict]
    ELSE row_to_dict_truncating(header, record, i + 1,
                                dict_set(row_dict, header[i], record[i]))

\* for i, column_name in enumerate(result.header):
\*     row_dict[column_name] = record[i]           (lines 138-140)
RECURSIVE row_to_dict(_, _, _, _)
row_to_dict(header, record, i, row_dict) ==
    IF i > Len(header) THEN [err |-> FALSE, val |-> row_dict]
    ELSE IF i > Len(record) THEN [err |-> TRUE, val |-> <<>>]
    ELSE row_to_dict(header, record, i + 1,
                     dict_set(row_dict, header[i], record[i]))

\* for record in result.result_set: ... data.append(row_dict)  (136-141)
RECURSIVE rows_to_dicts(_, _, _)
rows_to_dicts(header, result_set, data) ==
    IF result_set = <<>> THEN [err |-> FALSE, val |-> data]
    ELSE LET d == row_to_dict(header, Head(result_set), 1, <<>>)
         IN  IF d.err THEN [err |-> TRUE, val |-> <<>>]
             ELSE rows_to_dicts(header, Tail(result_set), Append(data, d.val))

\* a test for `is not None` in place of truthiness
header_present_not_none(header) == header # None

\* if result.header:   (None and the empty list are both falsy)
header_present(header) == header # None /\ header[1] # <<>>

\* lines 79-83
list_labels_try(d) ==
    IF ~d.select_ok THEN Raise(<<>>)
    ELSE LET result == d.answers[LabelsQuery]
             labels == column0(result.result_set, <<>>)
         IN  IF ~result.ok \/ labels.err THEN Raise(<<LabelsQuery>>)
             ELSE Return(labels.val, <<LabelsQuery>>)

\* a copy of list_labels whose query text was not changed
list_relationship_types_try_copied(d) ==
    IF ~d.select_ok THEN Raise(<<>>)
    ELSE LET result == d.answers[LabelsQuery]
             types == column0(result.result_set, <<>>)
         IN  IF ~result.ok \/ types.err THEN Raise(<<LabelsQuery>>)
             ELSE Return(types.val, <<LabelsQuery>>)

\* lines 93-97
list_relationship_types_try(d) ==
    IF ~d.select_ok THEN Raise(<<>>)
    ELSE LET result == d.answers[RelTypesQuery]
             types == column0(result.result_set, <<>>)
         IN  IF ~result.ok \/ types.err THEN Raise(<<RelTypesQuery>>)
             ELSE Return(types.val, <<RelTypesQuery>>)

\* a get_schema that reads the relationship types off the label result
get_schema_try_copied(d) ==
    IF ~d.select_ok THEN Raise(<<>>)
    ELSE LET labels_result == d.answers[LabelsQuery]
             labels == column0(labels_result.result_set, <<>>)
             rel_types_result == d.answers[RelTypesQuery]
             rel_types == column0(labels_result.result_set, <<>>)
         IN  IF ~labels_result.ok \/ labels.err THEN Raise(<<LabelsQuery>>)
             ELSE IF ~rel_types_result.ok \/ rel_types.err
             THEN Raise(<<LabelsQuery, RelTypesQuery>>)
             ELSE Return(<<[labels |-> labels.val,
                            relationshipTypes |-> rel_types.val]>>,
                         <<LabelsQuery, RelTypesQuery>>)

\* a get_schema that handles the two queries separately and keeps the half
\* that succeeded
get_schema_try_partial(d) ==
    IF ~d.select_ok THEN Raise(<<>>)
    ELSE LET labels_result == d.answers[LabelsQuery]
             labels == column0(labels_result.result_set, <<>>)
             rel_types_result == d.answers[RelTypesQuery]
             rel_types == column0(rel_types_result.result_set, <<>>)
         IN  Return(<<[labels |-> IF ~labels_result.ok \/ labels.err
                                  THEN <<>> ELSE labels.val,
                       relationshipTypes |->
                           IF ~rel_types_result.ok \/ rel_types.err
                           THEN <<>> ELSE rel_types.val]>>,
                    <<LabelsQuery, RelTypesQuery>>)

\* lines 107-118
get_schema_try(d) ==
    IF ~d.select_ok THEN Raise(<<>>)
    ELSE LET labels_result == d.answers[LabelsQuery]
             labels == column0(labels_result.result_set, <<>>)
             rel_types_result == d.answers[RelTypesQuery]
             rel_types == column0(rel_types_result.result_set, <<>>)
         IN  IF ~labels_result.ok \/ labels.err THEN Raise(<<LabelsQuery>>)
             ELSE IF ~rel_types_result.ok \/ rel_types.err
             THEN Raise(<<LabelsQuery, RelTypesQuery>>)
             ELSE Return(<<[labels |-> labels.val,
                            relationshipTypes |-> rel_types.val]>>,
                         <<LabelsQuery, RelTypesQuery>>)

\* lines 131-145
run_cypher_query_try(d, query) ==
    IF ~d.select_ok THEN Raise(<<>>)
    ELSE LET result == d.answers[query]
         IN  IF ~result.ok THEN Raise(<<query>>)
             ELSE IF header_present(result.header)
             THEN LET data == rows_to_dicts(result.header[1],
                                            result.result_set, <<>>)
                  IN  IF data.err THEN Raise(<<query>>)
                      ELSE Return(data.val, <<query>>)
             ELSE Return(result.result_set, <<query>>)

\* a handler that lets the exception through
except_reraise(t) ==
    [raised |-> t.err, result |-> IF t.err THEN <<>> ELSE t.val,
     issued |-> t.issued]

\* a handler that runs the try block a second time after a failure
except_retry(t) ==
    [raised |-> FALSE, result |-> IF t.err THEN <<>> ELSE t.val,
     issued |-> IF t.err THEN t.issued \o t.issued ELSE t.issued]

\* except Exception as e: logger.error(...); return []
\* (lines 84-86, 98-100, 119-121, 146-148)
except_return_empty(t) ==
    [raised |-> FALSE, result |-> IF t.err THEN <<>> ELSE t.val,
     issued |-> t.issued]

list_labels(d) == except_return_empty(list_labels_try(d))

list_relationship_types(d) ==
    except_return_empty(list_relationship_types_try(d))

get_schema(d) == except_return_empty(get_schema_try(d))

run_cypher_query(d, query) ==
    except_return_empty(run_cypher_query_try(d, query))

----------------------------------------------------------------------------
NoCall ==
    [op |-> "none", query |-> "", database |-> SelectFails, handle |-> None,
     selected |-> <<>>, issued |-> <<>>, raised |-> FALSE, result |-> <<>>]

\* the record of a call of operation op on database d that ended as r; every
\* operation uses self.db and selects self.graph_name, once, and assigns to
\* no attribute of self
Called(op, query, d, r) ==
    /\ last' = [op |-> op, query |-> query, database |-> d, handle |-> db,
                selected |-> <<graph_name[1]>>, issued |-> r.issued,
                raised |-> r.raised, result |-> r.result]
    /\ UNCHANGED <<args, env, state, raised, connected, connects, db,
                   graph_name, tools, registered, envRead>>

Idle == state = "Ready" /\ last.op = "none"

Construct ==
    /\ state = "Constructing"
    /\ \E accepts \in BOOLEAN :
         LET r == init(args, env, accepts)
         IN  /\ state' = r.state
             /\ raised' = r.raised
             /\ connected' = r.connected
             /\ connects' = r.connects
             /\ db' = r.db
             /\ graph_name' = r.graph_name
             /\ tools' = r.tools
             /\ registered' = r.registered
             /\ envRead' = r.envRead
    /\ UNCHANGED <<args, env, last>>

ListLabels ==
    /\ Idle
    /\ \E d \in {SelectFails} \cup {Answering(LabelsQuery, r) : r \in ColumnAnswers} :
         Called("list_labels", "", d, list_labels(d))

ListRelationshipTypes ==
    /\ Idle
    /\ \E d \in {SelectFails}
                \cup {Answering(RelTypesQuery, r) : r \in ColumnAnswers} :
         Called("list_relationship_types", "", d, list_relationship_types(d))

GetSchema ==
    /\ Idle
    /\ \E d \in {SelectFails}
                \cup {AnsweringBoth(l, r) : l \in SchemaAnswers, r \in SchemaAnswers} :
         Called("get_schema", "", d, get_schema(d))

RunCypherQuery ==
    /\ Idle
    /\ \E query \in Queries :
         \E d \in {SelectFails} \cup {Answering(query, r) : r \in QueryAnswers} :
           Called("run_cypher_query", query, d, run_cypher_query(d, query))

\* the caller takes the result; the toolkit is ready for the next call
TakeResult ==
    /\ state = "Ready"
    /\ last.op # "none"
    /\ last' = NoCall
    /\ UNCHANGED <<args, env, state, raised, connected, connects, db,
                   graph_name, tools, registered, envRead>>

----------------------------------------------------------------------------
(* Constructor inputs *)

EnvNames ==
    {"FALKORDB_HOST", "FALKORDB_PORT", "FALKORDB_USERNAME",
     "FALKORDB_PASSWORD", "FALKORDB_GRAPH"}

NoEnv == [n \in EnvNames |-> None]

DefaultArgs ==
    [host |-> None, port |-> None, username |-> None, password |-> None,
     graph_name |-> None, enable_list_labels |-> TRUE,
     enable_list_relationships |-> TRUE, enable_get_schema |-> TRUE,
     enable_run_cypher |-> TRUE, all |-> FALSE]

TypicalArgs ==
    {DefaultArgs,
     [DefaultArgs EXCEPT !.host = Some("db.example"), !.port = Some(7000),
                         !.graph_name = Some("custom_graph"),
                         !.enable_get_schema = FALSE]}

StartsWith(a, e) ==
    /\ args = a
    /\ env = e
    /\ state = "Constructing"
    /\ raised = "none"
    /\ connected = "none"
    /\ connects = 0
    /\ db = None
    /\ graph_name = None
    /\ tools = <<>>
    /\ registered = FALSE
    /\ envRead = {}
    /\ last = NoCall

Init == \E a \in TypicalArgs : StartsWith(a, NoEnv)

Next ==
    \/ Construct
    \/ ListLabels
    \/ ListRelationshipTypes
    \/ GetSchema
    \/ RunCypherQuery
    \/ TakeResult

Spec == Init /\ [][Next]_vars

----------------------------------------------------------------------------
(* The constructor on its own, over a wide range of arguments and          *)
(* environments.                                                           *)

HostArgs == {None, Some(""), Some("db.example")}

PortArgs == {None, Some(0), Some(7000)}

UsernameArgs == {None, Some(""), Some("alice")}

PasswordArgs == {None, Some(""), Some("secret")}

GraphArgs == {None, Some(""), Some("custom_graph")}

PortTexts == {<<"6", "3", "8", "0">>, <<"0">>, <<" ", "7", "1">>, <<"x">>, <<>>}

ConnectionArgs ==
    {[DefaultArgs EXCEPT !.host = h, !.port = p, !.username = u,
                         !.password = w, !.graph_name = g] :
        h \in HostArgs, p \in PortArgs, u \in UsernameArgs,
        w \in PasswordArgs, g \in GraphArgs}

Environments ==
    {[n \in EnvNames |->
        CASE n = "FALKORDB_HOST" -> h
          [] n = "FALKORDB_PORT" -> p
          [] n = "FALKORDB_USERNAME" -> u
          [] n = "FALKORDB_PASSWORD" -> w
          [] n = "FALKORDB_GRAPH" -> g] :
        h \in {None, Some(""), Some("env-host")},
        p \in {None} \cup {Some(t) : t \in PortTexts},
        u \in {None, Some("env_user")},
        w \in {None, Some("env_pass")},
        g \in {None, Some(""), Some("env_graph")}}

FlagArgs ==
    {[DefaultArgs EXCEPT !.enable_list_labels = f[1],
                         !.enable_list_relationships = f[2],
                         !.enable_get_schema = f[3],
                         !.enable_run_cypher = f[4], !.all = f[5]] :
        f \in [1..5 -> BOOLEAN]}

InitConstructor ==
    \/ \E a \in ConnectionArgs, e \in Environments : StartsWith(a, e)
    \/ \E a \in FlagArgs : StartsWith(a, NoEnv)

SpecInit == InitConstructor /\ [][Construct]_vars

----------------------------------------------------------------------------
(* Properties *)

Ops == {"list_labels", "list_relationship_types", "get_schema",
        "run_cypher_query"}

\* the answer the database of the last call gives to query q
LastAnswer(q) == last.database.answers[q]

HasEmptyRow(rs) == \E i \in DOMAIN rs : Len(rs[i]) = 0

HasShortRow(header, rs) == \E i \in DOMAIN rs : Len(rs[i]) < Len(header)

\* the first-column projection of an answer cannot be taken
ColumnFails(q) == ~LastAnswer(q).ok \/ HasEmptyRow(LastAnswer(q).result_set)

\* the answer carries a header: a list of one or more column names
CarriesHeader(a) == a.header # None /\ Len(a.header[1]) > 0

\* the rows of an answer cannot be turned into records
RecordsFail(q) ==
    \/ ~LastAnswer(q).ok
    \/ /\ CarriesHeader(LastAnswer(q))
       /\ HasShortRow(LastAnswer(q).header[1], LastAnswer(q).result_set)

\* something failed while the last call selected the graph, ran a query or
\* decoded a result
LastCallFailed ==
    \/ ~last.database.select_ok
    \/ last.op = "list_labels" /\ ColumnFails(LabelsQuery)
    \/ last.op = "list_relationship_types" /\ ColumnFails(RelTypesQuery)
    \/ last.op = "get_schema"
         /\ (ColumnFails(LabelsQuery) \/ ColumnFails(RelTypesQuery))
    \/ last.op = "run_cypher_query" /\ RecordsFail(last.query)

\* C1: whatever fails while a call of one of the four operations selects
\* the graph, runs a query or decodes the result, the call propagates no
\* exception and returns the empty list; every call returns a list.
C1_FailureGivesEmptyList ==
    last.op \in Ops =>
        /\ ~last.raised
        /\ DOMAIN last.result = 1..Len(last.result)
        /\ LastCallFailed => last.result = <<>>

\* a call whose query was answered but whose rows could not be decoded
C1_Witness ==
    /\ last.op = "run_cypher_query"
    /\ last.database.select_ok
    /\ LastAnswer(last.query).ok
    /\ LastCallFailed
    /\ last.result = <<>>
    /\ ~last.raised

\* C2: when the connection cannot be opened the constructor propagates the
\* error, the toolkit never becomes Ready, it holds no connection and no
\* tools are registered.
C2_ConnectionFailurePropagates ==
    connected = "refused" =>
        /\ state = "Failed"
        /\ raised = "Exception"
        /\ db = None
        /\ ~registered
        /\ tools = <<>>

C2_Witness == connected = "refused" /\ connects = 1 /\ state = "Failed"

FlagOf(op) ==
    CASE op = "list_labels" -> args.enable_list_labels
      [] op = "list_relationship_types" -> args.enable_list_relationships
      [] op = "get_schema" -> args.enable_get_schema
      [] op = "run_cypher_query" -> args.enable_run_cypher

\* C4: an operation is in the list handed to the registration host exactly
\* when `all` is true or the operation's own flag is true, and it is there
\* once.
C4_AdvertisedIffEnabled ==
    state = "Ready" =>
        /\ registered
        /\ Range(tools) \subseteq Ops
        /\ \A op \in Ops : (op \in Range(tools)) <=> (args.all \/ FlagOf(op))
        /\ Len(tools) = Cardinality(Range(tools))

\* `all` set and every individual flag cleared: all four are advertised
C4_Witness ==
    /\ state = "Ready"
    /\ args.all
    /\ \A op \in Ops : ~FlagOf(op)
    /\ Len(tools) = 4

DefaultPort == 6379

\* explicit argument, else environment variable, else default
Preferred(arg, variable, default) ==
    IF arg # None THEN arg[1]
    ELSE IF variable # None THEN variable[1] ELSE default

\* the environment variables whose argument was supplied
Supplied ==
    (IF args.host # None THEN {"FALKORDB_HOST"} ELSE {})
    \cup (IF args.port # None THEN {"FALKORDB_PORT"} ELSE {})
    \cup (IF args.username # None THEN {"FALKORDB_USERNAME"} ELSE {})
    \cup (IF args.password # None THEN {"FALKORDB_PASSWORD"} ELSE {})
    \cup (IF args.graph_name # None THEN {"FALKORDB_GRAPH"} ELSE {})

\* C3: each of host, port, username, password and graph name resolves to
\* the explicit argument when one is supplied (with any value), otherwise to
\* the environment variable when set, otherwise to the default; the
\* environment variable is consulted only when the argument is omitted.
C3_ExplicitArgumentWins ==
    /\ envRead \cap Supplied = {}
    /\ state = "Ready" =>
        /\ db[1].host = Preferred(args.host, env["FALKORDB_HOST"], DefaultHost)
        /\ db[1].port =
             IF args.port # None THEN args.port[1]
             ELSE IF env["FALKORDB_PORT"] # None
                  THEN int(env["FALKORDB_PORT"][1]).val ELSE DefaultPort
        /\ db[1].username =
             IF args.username # None THEN args.username
             ELSE env["FALKORDB_USERNAME"]
        /\ db[1].password =
             IF args.password # None THEN args.password
             ELSE env["FALKORDB_PASSWORD"]
        /\ graph_name[1] =
             Preferred(args.graph_name, env["FALKORDB_GRAPH"], DefaultGraph)

\* position j is the last one at which its name occurs in header h
LastOccurrence(h, j) == \A k \in (j + 1)..Len(h) : h[k] # h[j]

\* C5 as stated: the query text reaches the selected graph unchanged; with a
\* header the result is one record per row, in row order, keyed by the
\* header names, the i-th name holding the i-th value of the row; without a
\* header the result is the row sequence itself.
C5_AsStated ==
    (/\ last.op = "run_cypher_query"
     /\ last.database.select_ok
     /\ LastAnswer(last.query).ok) =>
        LET a == LastAnswer(last.query)
        IN  /\ last.issued = <<last.query>>
            /\ last.selected = <<graph_name[1]>>
            /\ IF CarriesHeader(a)
               THEN /\ Len(last.result) = Len(a.result_set)
                    /\ \A i \in DOMAIN a.result_set :
                         /\ DOMAIN last.result[i] = Range(a.header[1])
                         /\ \A j \in DOMAIN a.header[1] :
                              /\ j <= Len(a.result_set[i])
                              /\ last.result[i][a.header[1][j]]
                                   = a.result_set[i][j]
               ELSE last.result = a.result_set

\* C5, amended: with a header of one or more names and no row shorter than
\* the header, the result is one record per row, in row order, keyed by the
\* header names, a name holding the row's value at the last position where
\* the header has that name (the i-th value for the i-th name when the
\* names are distinct); when some row is shorter than the header the result
\* is empty; with no header, or an empty one, the result is the row
\* sequence itself.
C5_RecordsPerRow ==
    (/\ last.op = "run_cypher_query"
     /\ last.database.select_ok
     /\ LastAnswer(last.query).ok) =>
        LET a == LastAnswer(last.query)
        IN  /\ last.issued = <<last.query>>
            /\ last.selected = <<graph_name[1]>>
            /\ IF ~CarriesHeader(a) THEN last.result = a.result_set
               ELSE IF HasShortRow(a.header[1], a.result_set)
               THEN last.result = <<>>
               ELSE /\ Len(last.result) = Len(a.result_set)
                    /\ \A i \in DOMAIN a.result_set :
                         /\ DOMAIN last.result[i] = Range(a.header[1])
                         /\ \A j \in DOMAIN a.header[1] :
                              LastOccurrence(a.header[1], j) =>
                                last.result[i][a.header[1][j]]
                                  = a.result_set[i][j]

\* two rows under a two-name header, turned into two records
C5_Witness ==
    /\ last.op = "run_cypher_query"
    /\ last.database.select_ok
    /\ LastAnswer(last.query).ok
    /\ LastAnswer(last.query).header = Some(<<"a", "b">>)
    /\ LastAnswer(last.query).result_set = <<<<"A", "B">>, <<"B", "B">>>>
    /\ last.result = <<[a |-> "A", b |-> "B"], [a |-> "B", b |-> "B"]>>

\* the query the enumeration op issues
QueryOf(op) == IF op = "list_labels" THEN LabelsQuery ELSE RelTypesQuery

Enumerations == {"list_labels", "list_relationship_types"}

\* C6 as stated: when the introspection query succeeds, list_labels and
\* list_relationship_types return the first column of every row, one
\* element per row, in row order.
C6_AsStated ==
    (/\ last.op \in Enumerations
     /\ last.database.select_ok
     /\ LastAnswer(QueryOf(last.op)).ok) =>
        LET rs == LastAnswer(QueryOf(last.op)).result_set
        IN  /\ last.issued = <<QueryOf(last.op)>>
            /\ Len(last.result) = Len(rs)
            /\ \A i \in DOMAIN rs :
                 Len(rs[i]) > 0 /\ last.result[i] = rs[i][1]

\* C6, amended: when the introspection query succeeds and every row has at
\* least one column, the result is the first column of every row, one
\* element per row, in row order; when some row has no columns the result
\* is empty.
C6_FirstColumn ==
    (/\ last.op \in Enumerations
     /\ last.database.select_ok
     /\ LastAnswer(QueryOf(last.op)).ok) =>
        LET rs == LastAnswer(QueryOf(last.op)).result_set
        IN  /\ last.issued = <<QueryOf(last.op)>>
            /\ IF HasEmptyRow(rs) THEN last.result = <<>>
               ELSE /\ Len(last.result) = Len(rs)
                    /\ \A i \in DOMAIN rs : last.result[i] = rs[i][1]

\* relationship types read off two rows, the first of them two columns wide
C6_Witness ==
    /\ last.op = "list_relationship_types"
    /\ last.database.select_ok
    /\ LastAnswer(RelTypesQuery).ok
    /\ LastAnswer(RelTypesQuery).result_set = <<<<"B", "A">>, <<"A">>>>
    /\ last.result = <<"B", "A">>

\* the record get_schema is said to return for the database of the last call
SchemaOf(d) ==
    <<[labels |-> list_labels(d).result,
       relationshipTypes |-> list_relationship_types(d).result]>>

\* C7 as stated: for every database state get_schema returns the single
\* record [labels: L, relationshipTypes: R], L and R being what list_labels
\* and list_relationship_types return for that state.
C7_AsStated ==
    last.op = "get_schema" => last.result = SchemaOf(last.database)

\* C7, amended: for every database state in which the graph is selected,
\* both introspection queries succeed and every row of both has at least
\* one column, get_schema returns that single record; for every other
\* database state it returns the empty list.
C7_SchemaMatchesEnumerations ==
    last.op = "get_schema" =>
        IF /\ last.database.select_ok
           /\ ~ColumnFails(LabelsQuery)
           /\ ~ColumnFails(RelTypesQuery)
        THEN last.result = SchemaOf(last.database)
        ELSE last.result = <<>>

\* a schema with two labels and a different list of relationship types
C7_Witness ==
    /\ last.op = "get_schema"
    /\ Len(last.result) = 1
    /\ Len(last.result[1].labels) = 2
    /\ last.result[1].labels # last.result[1].relationshipTypes
    /\ last.result[1].relationshipTypes # <<>>

\* C8: get_schema issues the label query first and the relationship-type
\* query second; when the label step fails the second query is not issued;
\* when either step fails the result is empty; the result has length 0 or
\* 1, and 1 only when both steps succeeded.
C8_SchemaAllOrNothing ==
    last.op = "get_schema" =>
        /\ Len(last.result) \in {0, 1}
        /\ last.issued \in {<<>>, <<LabelsQuery>>, <<LabelsQuery, RelTypesQuery>>}
        /\ last.database.select_ok => last.issued # <<>>
        /\ ColumnFails(LabelsQuery) => last.issued \in {<<>>, <<LabelsQuery>>}
        /\ (ColumnFails(LabelsQuery) \/ ColumnFails(RelTypesQuery))
             => last.result = <<>>
        /\ Len(last.result) = 1 =>
             /\ last.database.select_ok
             /\ ~ColumnFails(LabelsQuery)
             /\ ~ColumnFails(RelTypesQuery)
             /\ last.issued = <<LabelsQuery, RelTypesQuery>>

\* the labels were read, the relationship-type query raised, nothing is
\* returned
C8_Witness ==
    /\ last.op = "get_schema"
    /\ last.database.select_ok
    /\ ~ColumnFails(LabelsQuery)
    /\ LastAnswer(LabelsQuery).result_set # <<>>
    /\ ~LastAnswer(RelTypesQuery).ok
    /\ last.issued = <<LabelsQuery, RelTypesQuery>>
    /\ last.result = <<>>

NoRepeats(q) == Cardinality(Range(q)) = Len(q)

\* C9: once constructed, no step changes the connection, the graph name or
\* the advertised tools, or opens another connection; every call uses that
\* connection, selects that graph once and issues no query twice.
C9_CallsLeaveToolkitAlone ==
    [][state = "Ready" =>
        /\ state' = "Ready"
        /\ db' = db
        /\ graph_name' = graph_name
        /\ tools' = tools
        /\ connects' = connects
        /\ last'.op \in Ops =>
             /\ last'.handle = db
             /\ last'.selected = <<graph_name[1]>>
             /\ NoRepeats(last'.issued)
             /\ Len(last'.issued) <= (IF last'.op = "get_schema" THEN 2 ELSE 1)
      ]_vars

\* a failed call, answered by the one connection made at construction
C9_Witness ==
    /\ state = "Ready"
    /\ last.op \in Ops
    /\ LastCallFailed
    /\ last.issued # <<>>
    /\ last.handle = db
    /\ connects = 1

\* C10: with a header, a row shorter than the header empties the whole
\* result, and a row longer than the header gives a record with exactly the
\* header's keys, holding values from under the header only; in the two
\* enumerations a row with no columns empties the whole result.
C10_RowLengthMismatch ==
    /\ (/\ last.op = "run_cypher_query"
        /\ last.database.select_ok
        /\ LastAnswer(last.query).ok
        /\ CarriesHeader(LastAnswer(last.query))) =>
           LET h == LastAnswer(last.query).header[1]
               rs == LastAnswer(last.query).result_set
           IN  IF HasShortRow(h, rs) THEN last.result = <<>>
               ELSE /\ Len(last.result) = Len(rs)
                    /\ \A i \in DOMAIN rs :
                         /\ DOMAIN last.result[i] = Range(h)
                         /\ Range(last.result[i])
                              \subseteq {rs[i][j] : j \in 1..Len(h)}
    /\ (/\ last.op \in Enumerations
        /\ last.database.select_ok
        /\ LastAnswer(QueryOf(last.op)).ok
        /\ HasEmptyRow(LastAnswer(QueryOf(last.op)).result_set)) =>
           last.result = <<>>

\* a row longer than the header, then a row shorter than it: nothing is
\* returned, the record of the first row included
C10_Witness ==
    /\ last.op = "run_cypher_query"
    /\ last.database.select_ok
    /\ LastAnswer(last.query).ok
    /\ CarriesHeader(LastAnswer(last.query))
    /\ LET h == LastAnswer(last.query).header[1]
           rs == LastAnswer(last.query).result_set
       IN  /\ Len(rs) = 2
           /\ Len(rs[1]) > Len(h)
           /\ Len(rs[2]) < Len(h)
    /\ last.result = <<>>

============================================================================
